---- MODULE Spec2Model ----
(***************************************************************************)
(* Model of the Reachy pose controller: the vision worker (yolo_loop), the *)
(* control worker (control_reachy), the orchestrator loop (main) and the   *)
(* geometry utility (calculate_angle).                                     *)
(*                                                                         *)
(* Number representation.  Pixels are integers.  A head lateral position   *)
(* is an integer number of 1/LatScale mm, so that the interpolation        *)
(* 35 - 70*(x+80)/160 is exact on integer pixels.  An angle returned by    *)
(* arccos is kept exactly as the cosine it was computed from: <<s, p, q>>  *)
(* stands for arccos(s * sqrt(p/q)), p/q in lowest terms, s the sign.      *)
(* An optional value (a float or None) is <<>> for None and <<v>> for v.   *)
(***************************************************************************)
EXTENDS Integers, Sequences, FiniteSets, TLC

\* ---------------------------------------------------------------- bounds
MaxFrames == 3        \* numbered frames the detector finds a subject in
MaxPuts == 3          \* bundles a producer hands to the control stage on its own
MaxPresses == 1       \* presses of the calibrate key
MaxCoord == 1         \* largest coordinate of a point given to calculate_angle
MaxSway == 100        \* largest |hip_sway| given to the mapping on its own

\* ------------------------------------------------------ program constants
LEFT_SHOULDER == 5
RIGHT_SHOULDER == 6
LEFT_ELBOW == 7
RIGHT_ELBOW == 8
LEFT_HIP == 11
RIGHT_HIP == 12
CONF_THRESHOLD == 50          \* 0.5, confidences are in hundredths
SWAY_PIXEL_MAX == 80
HEAD_Y_MM_MAX == 35
FrameQueueMax == 2
PoseQueueMax == 10

SWAY_INPUT_RANGE == <<-SWAY_PIXEL_MAX, SWAY_PIXEL_MAX>>
HEAD_OUTPUT_RANGE == <<HEAD_Y_MM_MAX, -HEAD_Y_MM_MAX>>

None == <<>>
Some(v) == <<v>>

\* ------------------------------------------------------------- geometry
RECURSIVE Gcd(_, _)
Gcd(m, n) == IF n = 0 THEN m ELSE Gcd(n, m % n)

\* Lateral positions are in 1/LatScale mm, the smallest unit in which every
\* pixel of the input range maps to a whole number: 80 / gcd(80, 35) = 16.
LatScale == SWAY_PIXEL_MAX \div Gcd(SWAY_PIXEL_MAX, HEAD_Y_MM_MAX)

Sq(v) == v * v

RECURSIVE SumSq(_)
SumSq(v) == IF v = <<>> THEN 0 ELSE Sq(Head(v)) + SumSq(Tail(v))

RECURSIVE Dot(_, _)
Dot(u, v) == IF u = <<>> THEN 0 ELSE Head(u) * Head(v) + Dot(Tail(u), Tail(v))

Sub(u, v) == [i \in 1..Len(u) |-> u[i] - v[i]]

Sign(n) == IF n > 0 THEN 1 ELSE IF n < 0 THEN -1 ELSE 0

\* arccos of the cosine dot / sqrt(nn), nn = |ba|^2 |bc|^2 > 0, kept exactly.
\* By Cauchy-Schwarz dot^2 <= nn, so the clip to [-1, 1] changes nothing.
ArcCos(dot, nn) ==
    LET g == Gcd(Sq(dot), nn)
    IN  <<Sign(dot), Sq(dot) \div g, nn \div g>>

ZeroAngle == <<1, 1, 1>>      \* 0.0 = arccos(1)
Pi == <<-1, 1, 1>>            \* math.pi = arccos(-1)
NaN == <<0, 0, 0>>            \* what 0/0 gives

\* norm_ba == 0 or norm_bc == 0, on the squared norms
ZeroLengthBoth(nba, nbc) == nba = 0 /\ nbc = 0
ZeroLength(nba, nbc) == nba = 0 \/ nbc = 0

calculate_angle(a, b, c) ==
    LET ba == Sub(a, b)
        bc == Sub(c, b)
        nba == SumSq(ba)
        nbc == SumSq(bc)
    IN  IF ZeroLength(nba, nbc) THEN ZeroAngle
        ELSE IF nba * nbc = 0 THEN NaN
        ELSE ArcCos(Dot(ba, bc), nba * nbc)

\* math.pi - angle: arccos(-x) = pi - arccos(x)
PiMinus(ang) == <<-ang[1], ang[2], ang[3]>>

\* A signed angle k * ang, k in {-1, 1}; -0.0 and 0.0 are equal floats.
Radians(k, ang) == IF ang = ZeroAngle THEN <<1, ang>> ELSE <<k, ang>>
Magnitude(r) == r[2]

\* ------------------------------------------------ sway to head mapping
\* np.interp(x, xp, fp) for two increasing sample points, in 1/LatScale mm
Interp(x, xp, fp) ==
    IF x <= xp[1] THEN fp[1] * LatScale
    ELSE IF x >= xp[2] THEN fp[2] * LatScale
    ELSE fp[1] * LatScale
         + ((fp[2] - fp[1]) * LatScale * (x - xp[1])) \div (xp[2] - xp[1])

Clip(v, lo, hi) == IF v < lo THEN lo ELSE IF v > hi THEN hi ELSE v

\* what a mapping without the saturation of np.interp and np.clip would give
head_y_cmd_unclamped(hip_sway) == -(HEAD_Y_MM_MAX * LatScale * hip_sway) \div SWAY_PIXEL_MAX
\* the same map, not mirrored
head_y_cmd_unmirrored(hip_sway) ==
    Clip(Interp(hip_sway, SWAY_INPUT_RANGE, <<-HEAD_Y_MM_MAX, HEAD_Y_MM_MAX>>),
         -HEAD_Y_MM_MAX * LatScale, HEAD_Y_MM_MAX * LatScale)
head_y_cmd(hip_sway) ==
    Clip(Interp(hip_sway, SWAY_INPUT_RANGE, HEAD_OUTPUT_RANGE),
         -HEAD_Y_MM_MAX * LatScale, HEAD_Y_MM_MAX * LatScale)

\* create_head_pose(y=..., mm=True): a pose whose only varied axis is y
create_head_pose(y) == [y |-> y]

NeutralAntennas == <<Radians(1, ZeroAngle), Radians(1, ZeroAngle)>>

\* antennas that are not mirrored: both with the sign of the right one
antenna_cmd_same_sign(left_arm, right_arm) ==
    <<Radians(1, PiMinus(left_arm)), Radians(1, PiMinus(right_arm))>>
antenna_cmd(left_arm, right_arm) ==
    <<Radians(-1, PiMinus(left_arm)), Radians(1, PiMinus(right_arm))>>

\* the two channels held together instead of one by one
ControlTarget_joint(pose_data, last_head, last_ant) ==
    IF pose_data.hip_sway # None /\ pose_data.left_arm # None /\ pose_data.right_arm # None
    THEN [head |-> create_head_pose(head_y_cmd(pose_data.hip_sway[1])),
          antennas |-> antenna_cmd(pose_data.left_arm[1], pose_data.right_arm[1])]
    ELSE [head |-> last_head, antennas |-> last_ant]
\* new_head_pose and new_antennas of one control cycle
ControlTarget(pose_data, last_head, last_ant) ==
    [head |-> IF pose_data.hip_sway # None
              THEN create_head_pose(head_y_cmd(pose_data.hip_sway[1]))
              ELSE last_head,
     antennas |-> IF pose_data.left_arm # None /\ pose_data.right_arm # None
                  THEN antenna_cmd(pose_data.left_arm[1], pose_data.right_arm[1])
                  ELSE last_ant]

\* ------------------------------------------------------- vision stage
\* A detected subject: keypoint index |-> <<x, y, confidence>>.  The x's of
\* the model are even, so the two means of the sway are exact.
KeypointIdx == {LEFT_SHOULDER, RIGHT_SHOULDER, LEFT_ELBOW, RIGHT_ELBOW, LEFT_HIP, RIGHT_HIP}

Confident(kpt) == kpt[3] > CONF_THRESHOLD

Pos(kpt) == <<kpt[1], kpt[2]>>

NoSignals == [left_arm |-> None, right_arm |-> None, hip_sway |-> None]

\* raw_hip_sway of lines 122-128
raw_hip_sway(person_kpts) ==
    (person_kpts[LEFT_HIP][1] + person_kpts[RIGHT_HIP][1]) \div 2
    - (person_kpts[LEFT_SHOULDER][1] + person_kpts[RIGHT_SHOULDER][1]) \div 2

HasSway(person_kpts) ==
    /\ Confident(person_kpts[LEFT_HIP])
    /\ Confident(person_kpts[RIGHT_HIP])
    /\ Confident(person_kpts[LEFT_SHOULDER])
    /\ Confident(person_kpts[RIGHT_SHOULDER])

HasLeftArm(person_kpts) ==
    /\ Confident(person_kpts[LEFT_HIP])
    /\ Confident(person_kpts[LEFT_SHOULDER])
    /\ Confident(person_kpts[LEFT_ELBOW])

HasRightArm(person_kpts) ==
    /\ Confident(person_kpts[RIGHT_HIP])
    /\ Confident(person_kpts[RIGHT_SHOULDER])
    /\ Confident(person_kpts[RIGHT_ELBOW])

\* a calibration that does not wait for the four hip and shoulder keypoints
Calibrates_any_subject(person_kpts, err, cal) ==
    /\ err # "kpts"
    /\ ~(err = "putL" /\ HasLeftArm(person_kpts))
    /\ ~(err = "putR" /\ HasRightArm(person_kpts))
    /\ cal
\* The try block of one frame (lines 70-147) for a detected subject.  err is
\* where the block raises: "none", "kpts" (lines 72-84), "putL" (line 97),
\* "putR" (line 112); a raise at line 141 comes after the last assignment and
\* changes nothing.  Gives latest_pose_data, the trigger and the offset after.
Calibrates(person_kpts, err, cal) ==
    /\ err # "kpts"
    /\ ~(err = "putL" /\ HasLeftArm(person_kpts))
    /\ ~(err = "putR" /\ HasRightArm(person_kpts))
    /\ HasSway(person_kpts)
    /\ cal

\* a trigger that is read and never cleared
TriggerAfter_sticky(person_kpts, err, cal) == cal
TriggerAfter(person_kpts, err, cal) ==
    IF Calibrates(person_kpts, err, cal) THEN FALSE ELSE cal

\* an offset that follows the raw sway of every frame
OffsetAfter_every_frame(person_kpts, err, cal, off) == raw_hip_sway(person_kpts)
\* lines 132-133: pose_zero_offsets['hip_sway'] after the frame
OffsetAfter(person_kpts, err, cal, off) ==
    IF Calibrates(person_kpts, err, cal) THEN raw_hip_sway(person_kpts) ELSE off

PoseData(person_kpts, err, cal, off) ==
    LET left == calculate_angle(Pos(person_kpts[LEFT_HIP]), Pos(person_kpts[LEFT_SHOULDER]),
                                Pos(person_kpts[LEFT_ELBOW]))
        right == calculate_angle(Pos(person_kpts[RIGHT_HIP]), Pos(person_kpts[RIGHT_SHOULDER]),
                                 Pos(person_kpts[RIGHT_ELBOW]))
        final_hip_sway == raw_hip_sway(person_kpts) - OffsetAfter(person_kpts, err, cal, off)
        d1 == IF HasLeftArm(person_kpts) THEN [NoSignals EXCEPT !.left_arm = Some(left)]
              ELSE NoSignals
        d2 == IF HasRightArm(person_kpts) THEN [d1 EXCEPT !.right_arm = Some(right)] ELSE d1
        d3 == IF HasSway(person_kpts) THEN [d2 EXCEPT !.hip_sway = Some(final_hip_sway)] ELSE d2
    IN  IF err = "kpts" THEN NoSignals
        ELSE IF err = "putL" /\ HasLeftArm(person_kpts) THEN d1
        ELSE IF err = "putR" /\ HasRightArm(person_kpts) THEN d2
        ELSE d3

\* a put that makes room by discarding the oldest item
put_nowait_overwrite(q, maxsize, item) ==
    IF Len(q) >= maxsize THEN Append(Tail(q), item) ELSE Append(q, item)
\* a queue that hands out its newest item first
put_nowait_lifo(q, maxsize, item) ==
    IF Len(q) >= maxsize THEN q ELSE <<item>> \o q
\* queue.Queue.put_nowait: raises Full, caught by the caller, when full
put_nowait(q, maxsize, item) ==
    IF Len(q) >= maxsize THEN q ELSE Append(q, item)

\* ------------------------------------------------------ detector outputs
Shoulder == [i \in {LEFT_SHOULDER, RIGHT_SHOULDER} |->
                IF i = LEFT_SHOULDER THEN <<120, 100>> ELSE <<200, 100>>]
ShoulderOf(i) == IF i \in {LEFT_SHOULDER, LEFT_ELBOW, LEFT_HIP} THEN Shoulder[LEFT_SHOULDER]
                 ELSE Shoulder[RIGHT_SHOULDER]

\* Elbow relative to its shoulder: the left one on the shoulder (a zero-length
\* upper arm), the right one raised to the side.
LeftElbowOffset == <<0, 0>>
RightElbowOffset == <<60, -60>>
Sways == {-60, 60}
AllHigh == [i \in KeypointIdx |-> 90]
ConfPatterns == {AllHigh,
                 [AllHigh EXCEPT ![LEFT_HIP] = 30, ![RIGHT_HIP] = CONF_THRESHOLD]}

Person(d, le, re, cf) ==
    [i \in KeypointIdx |->
        LET sh == ShoulderOf(i)
            xy == CASE i \in {LEFT_SHOULDER, RIGHT_SHOULDER} -> sh
                    [] i \in {LEFT_HIP, RIGHT_HIP} -> <<sh[1] + d, sh[2] + 100>>
                    [] i = LEFT_ELBOW -> <<sh[1] + le[1], sh[2] + le[2]>>
                    [] i = RIGHT_ELBOW -> <<sh[1] + re[1], sh[2] + re[2]>>
        IN  <<xy[1], xy[2], cf[i]>>]

Persons == {Person(d, LeftElbowOffset, RightElbowOffset, cf) :
               d \in Sways, cf \in ConfPatterns}
Errs == {"none", "kpts", "putL"}
PersonsLong == {Person(60, LeftElbowOffset, RightElbowOffset, AllHigh)}
Keys == {"q", "c"}

\* ----------------------------------------------------------------- state
VARIABLES
    pc_main,            \* where main is
    pc_yolo,            \* where yolo_loop is
    pc_ctl,             \* where control_reachy is
    frame_queue,        \* queue.Queue(maxsize=2) of (frame, pose data)
    pose_queue,         \* queue.Queue(maxsize=10) of pose data
    stop_signal,        \* threading.Event
    calibrate_event,    \* threading.Event
    pose_zero_offsets,  \* pose_zero_offsets['hip_sway']
    last_head_pose,     \* control_reachy's held head pose
    last_antennas,      \* control_reachy's held antennas
    pose_data,          \* control_reachy's last dequeued bundle
    mini,               \* the last command handed to the robot
    key,                \* the key press the window holds for waitKey
    window,             \* the display: "none", "shown", "destroyed"
    frames,             \* the highest number of a frame a subject was found in
    dropped,            \* the queues a put_nowait found full so far
    presses,            \* 'c' presses so far
    rewrites,           \* writes of the offset so far
    n_goto,             \* goto_target calls so far
    last_sent,          \* the target of the last set_target call that returned
    fn_in,              \* argument of a function checked on its own
    fn_out              \* its result

pipe == <<pc_main, pc_yolo, pc_ctl, frame_queue, pose_queue, stop_signal,
          calibrate_event, pose_zero_offsets, last_head_pose, last_antennas, pose_data,
          mini, key, window, frames, dropped, presses, rewrites, n_goto, last_sent>>
vars == <<pipe, fn_in, fn_out>>

\* A command handed to the robot: the call, the bundle whose cycle made the
\* call (none for a goto_target), whether it is a set_target called with the
\* stop flag already set, and the target.
NoCommand ==
    [op |-> "none", bundle |-> None, after_stop |-> FALSE, head |-> create_head_pose(0),
     antennas |-> None]

InitPipe ==
    /\ pc_main = "init"
    /\ pc_yolo = "idle"
    /\ pc_ctl = "idle"
    /\ frame_queue = <<>>
    /\ pose_queue = <<>>
    /\ stop_signal = FALSE
    /\ calibrate_event = FALSE
    /\ pose_zero_offsets = 0
    /\ last_head_pose = create_head_pose(0)
    /\ last_antennas = NeutralAntennas
    /\ pose_data = None
    /\ mini = NoCommand
    /\ key = "none"
    /\ window = "none"
    /\ frames = 0
    /\ dropped = {}
    /\ presses = 0
    /\ rewrites = 0
    /\ n_goto = 0
    /\ last_sent = None

Init == InitPipe /\ fn_in = <<>> /\ fn_out = <<>>

fn == <<fn_in, fn_out>>

\* ------------------------------------------------------- yolo_loop steps
\* lines 41-50: cv2.VideoCapture(0); a camera that does not open sets stop
YoloOpenCamera(ok) ==
    /\ pc_yolo = "open"
    /\ IF ok THEN pc_yolo' = "loop" /\ UNCHANGED stop_signal
             ELSE pc_yolo' = "done" /\ stop_signal' = TRUE
    /\ UNCHANGED <<pc_main, pc_ctl, frame_queue, pose_queue, calibrate_event,
                   pose_zero_offsets, last_head_pose, last_antennas, pose_data, mini, key, window,
                   frames, dropped, presses, rewrites, n_goto, last_sent, fn>>

\* line 54: while cap.isOpened() and not stop_event.is_set()
YoloLoopCheck ==
    /\ pc_yolo = "loop"
    /\ pc_yolo' = IF stop_signal THEN "release" ELSE "read"
    /\ UNCHANGED <<pc_main, pc_ctl, frame_queue, pose_queue, stop_signal, calibrate_event,
                   pose_zero_offsets, last_head_pose, last_antennas, pose_data, mini, key, window,
                   frames, dropped, presses, rewrites, n_goto, last_sent, fn>>

\* a read failure that also sets the stop flag
YoloReadFail_stops ==
    /\ pc_yolo = "read"
    /\ pc_yolo' = "release"
    /\ stop_signal' = TRUE
    /\ UNCHANGED <<pc_main, pc_ctl, frame_queue, pose_queue, calibrate_event,
                   pose_zero_offsets, last_head_pose, last_antennas, pose_data, mini, key, window,
                   frames, dropped, presses, rewrites, n_goto, last_sent, fn>>
\* lines 55-58: cap.read() fails, break
YoloReadFail ==
    /\ pc_yolo = "read"
    /\ pc_yolo' = "release"
    /\ UNCHANGED <<pc_main, pc_ctl, frame_queue, pose_queue, stop_signal, calibrate_event,
                   pose_zero_offsets, last_head_pose, last_antennas, pose_data, mini, key, window,
                   frames, dropped, presses, rewrites, n_goto, last_sent, fn>>

\* a frame with no subject that is put on the queue with an empty bundle
YoloNoPerson_enqueues ==
    /\ pc_yolo = "read"
    /\ pc_yolo' = "loop"
    /\ frame_queue' = put_nowait(frame_queue, FrameQueueMax,
                                 [frame |-> 0, pose |-> [id |-> 0, left_arm |-> None,
                                                         right_arm |-> None, hip_sway |-> None]])
    /\ UNCHANGED <<pc_main, pc_ctl, pose_queue, stop_signal, calibrate_event,
                   pose_zero_offsets, last_head_pose, last_antennas, pose_data, mini, key, window,
                   frames, dropped, presses, rewrites, n_goto, last_sent, fn>>
\* lines 55-74: a frame with no subject, continue
YoloNoPerson ==
    /\ pc_yolo = "read"
    /\ pc_yolo' = "loop"
    /\ UNCHANGED <<pc_main, pc_ctl, frame_queue, pose_queue, stop_signal, calibrate_event,
                   pose_zero_offsets, last_head_pose, last_antennas, pose_data, mini, key, window,
                   frames, dropped, presses, rewrites, n_goto, last_sent, fn>>

\* lines 55-154: a frame with a subject, processed and put on frame_queue.
\* image is what the camera delivered: frames that differ are numbered from 1,
\* frames of an unchanging scene are all image 0.
YoloFrame(person_kpts, err, image) ==
    /\ pc_yolo = "read"
    /\ image <= MaxFrames
    /\ frames' = IF image > frames THEN image ELSE frames
    /\ LET data == PoseData(person_kpts, err, calibrate_event, pose_zero_offsets)
           latest_pose_data == [id |-> image, left_arm |-> data.left_arm,
                                right_arm |-> data.right_arm, hip_sway |-> data.hip_sway]
           item == [frame |-> image, pose |-> latest_pose_data]
       IN  /\ frame_queue' = put_nowait(frame_queue, FrameQueueMax, item)
           /\ dropped' = IF Len(frame_queue) >= FrameQueueMax
                         THEN dropped \cup {"frame"} ELSE dropped
    /\ pose_zero_offsets' = OffsetAfter(person_kpts, err, calibrate_event, pose_zero_offsets)
    /\ calibrate_event' = TriggerAfter(person_kpts, err, calibrate_event)
    /\ rewrites' = IF Calibrates(person_kpts, err, calibrate_event)
                   THEN rewrites + 1 ELSE rewrites
    /\ pc_yolo' = "loop"
    /\ UNCHANGED <<pc_main, pc_ctl, pose_queue, stop_signal, last_head_pose,
                   last_antennas, pose_data, mini, key, window, presses, n_goto, last_sent, fn>>

\* lines 156-158: cap.release()
YoloRelease ==
    /\ pc_yolo = "release"
    /\ pc_yolo' = "done"
    /\ UNCHANGED <<pc_main, pc_ctl, frame_queue, pose_queue, stop_signal, calibrate_event,
                   pose_zero_offsets, last_head_pose, last_antennas, pose_data, mini, key, window,
                   frames, dropped, presses, rewrites, n_goto, last_sent, fn>>

\* -------------------------------------------------- control_reachy steps
\* a set_target that is skipped when the target is the one the robot has
set_target_on_change(cmd, id, new) ==
    IF cmd.op = "set" /\ cmd.head = new.head /\ cmd.antennas = Some(new.antennas)
    THEN cmd
    ELSE [op |-> "set", bundle |-> Some(id), after_stop |-> stop_signal, head |-> new.head,
          antennas |-> Some(new.antennas)]
\* lines 74-77: mini.set_target(head=new_head_pose, antennas=new_antennas), in
\* the cycle of bundle id, after the command cmd
set_target(cmd, id, new) ==
    [op |-> "set", bundle |-> Some(id), after_stop |-> stop_signal, head |-> new.head,
     antennas |-> Some(new.antennas)]

\* a loop that ends only when the queue has been emptied
ControlLoopCheck_drains ==
    /\ pc_ctl = "loop"
    /\ pc_ctl' = IF stop_signal /\ pose_queue = <<>> THEN "final" ELSE "get"
    /\ UNCHANGED <<pc_main, pc_yolo, frame_queue, pose_queue, stop_signal, calibrate_event,
                   pose_zero_offsets, last_head_pose, last_antennas, pose_data, mini, key, window,
                   frames, dropped, presses, rewrites, n_goto, last_sent, fn>>
\* line 42: while not stop_event.is_set()
ControlLoopCheck ==
    /\ pc_ctl = "loop"
    /\ pc_ctl' = IF stop_signal THEN "final" ELSE "get"
    /\ UNCHANGED <<pc_main, pc_yolo, frame_queue, pose_queue, stop_signal, calibrate_event,
                   pose_zero_offsets, last_head_pose, last_antennas, pose_data, mini, key, window,
                   frames, dropped, presses, rewrites, n_goto, last_sent, fn>>

\* a store that is not skipped when set_target raises
store_last_always(raises, new, last_head, last_ant) == new
\* lines 80-81, reached only when set_target returned: last_head_pose and
\* last_antennas after the cycle
store_last(raises, new, last_head, last_ant) ==
    IF raises THEN [head |-> last_head, antennas |-> last_ant] ELSE new

\* lines 45-83 and 91-92: a bundle is dequeued, mapped and handed to set_target;
\* when set_target raises, lines 80-83 are skipped
ControlCycle(raises) ==
    /\ pc_ctl = "get"
    /\ pose_queue # <<>>
    /\ LET got == Head(pose_queue)
           new == ControlTarget(got, last_head_pose, last_antennas)
       IN  /\ pose_data' = Some(got)
           /\ mini' = set_target(mini, got.id, new)
           /\ last_head_pose' = store_last(raises, new, last_head_pose, last_antennas).head
           /\ last_antennas' = store_last(raises, new, last_head_pose, last_antennas).antennas
           /\ last_sent' = IF raises THEN last_sent ELSE Some(new)
    /\ pose_queue' = Tail(pose_queue)
    /\ pc_ctl' = "loop"
    /\ UNCHANGED <<pc_main, pc_yolo, frame_queue, stop_signal, calibrate_event,
                   pose_zero_offsets, key, window, frames, dropped, presses, rewrites,
                   n_goto, fn>>

\* a get that never times out
ControlTimeout_blocking ==
    /\ pc_ctl = "get"
    /\ pose_queue = <<>>
    /\ UNCHANGED vars
\* lines 45 and 85-89: queue.Empty after 0.1 s, continue
ControlTimeout ==
    /\ pc_ctl = "get"
    /\ pose_queue = <<>>
    /\ pc_ctl' = "loop"
    /\ UNCHANGED <<pc_main, pc_yolo, frame_queue, pose_queue, stop_signal, calibrate_event,
                   pose_zero_offsets, last_head_pose, last_antennas, pose_data, mini, key, window,
                   frames, dropped, presses, rewrites, n_goto, last_sent, fn>>

\* a worker that ends without the final command
ControlFinal_silent ==
    /\ pc_ctl = "final"
    /\ pc_ctl' = "done"
    /\ UNCHANGED <<pc_main, pc_yolo, frame_queue, pose_queue, stop_signal, calibrate_event,
                   pose_zero_offsets, last_head_pose, last_antennas, pose_data, mini, key,
                   window, frames, dropped, presses, rewrites, n_goto, last_sent, fn>>
\* lines 94-99: the final neutral goto_target
ControlFinal ==
    /\ pc_ctl = "final"
    /\ mini' = [op |-> "goto", bundle |-> None, after_stop |-> FALSE,
                head |-> create_head_pose(0), antennas |-> Some(NeutralAntennas)]
    /\ n_goto' = n_goto + 1
    /\ pc_ctl' = "done"
    /\ UNCHANGED <<pc_main, pc_yolo, frame_queue, pose_queue, stop_signal, calibrate_event,
                   pose_zero_offsets, last_head_pose, last_antennas, pose_data, key, window,
                   frames, dropped, presses, rewrites, last_sent, fn>>

\* ------------------------------------------------------------ main steps
\* lines 20-62: the robot is created, sent to its start position, the queues
\* and events are made and both threads are started; without a robot, return
MainRobotInit(ok) ==
    /\ pc_main = "init"
    /\ IF ok
       THEN /\ mini' = [op |-> "goto", bundle |-> None, after_stop |-> FALSE,
                         head |-> create_head_pose(0), antennas |-> None]
            /\ n_goto' = n_goto + 1
            /\ pc_yolo' = "open"
            /\ pc_ctl' = "loop"
            /\ pc_main' = "loop"
       ELSE /\ pc_main' = "aborted"
            /\ UNCHANGED <<mini, n_goto, pc_yolo, pc_ctl>>
    /\ UNCHANGED <<frame_queue, pose_queue, stop_signal, calibrate_event,
                   pose_zero_offsets, last_head_pose, last_antennas, pose_data, key, window,
                   frames, dropped, presses, rewrites, last_sent, fn>>

\* line 70: while not stop_signal.is_set()
MainLoopCheck ==
    /\ pc_main = "loop"
    /\ pc_main' = IF stop_signal THEN "join_yolo" ELSE "get"
    /\ UNCHANGED <<pc_yolo, pc_ctl, frame_queue, pose_queue, stop_signal, calibrate_event,
                   pose_zero_offsets, last_head_pose, last_antennas, pose_data, mini, key, window,
                   frames, dropped, presses, rewrites, n_goto, last_sent, fn>>

\* lines 73-94: a frame is got, its pose data forwarded, the frame shown, a
\* key polled and handled
MainIteration ==
    /\ pc_main = "get"
    /\ frame_queue # <<>>
    /\ LET got == Head(frame_queue)
       IN  /\ pose_queue' = put_nowait(pose_queue, PoseQueueMax, got.pose)
           /\ dropped' = IF Len(pose_queue) >= PoseQueueMax
                         THEN dropped \cup {"pose"} ELSE dropped
    /\ frame_queue' = Tail(frame_queue)
    /\ window' = "shown"
    /\ key' = "none"
    /\ stop_signal' = IF key = "q" THEN TRUE ELSE stop_signal
    /\ calibrate_event' = IF key = "c" THEN TRUE ELSE calibrate_event
    /\ pc_main' = IF key = "q" THEN "join_yolo" ELSE "loop"
    /\ UNCHANGED <<pc_yolo, pc_ctl, pose_zero_offsets, last_head_pose, last_antennas, pose_data,
                   mini, frames, presses, rewrites, n_goto, last_sent, fn>>

\* lines 73 and 96-98: queue.Empty after 0.1 s, continue
MainTimeout ==
    /\ pc_main = "get"
    /\ frame_queue = <<>>
    /\ pc_main' = "loop"
    /\ UNCHANGED <<pc_yolo, pc_ctl, frame_queue, pose_queue, stop_signal, calibrate_event,
                   pose_zero_offsets, last_head_pose, last_antennas, pose_data, mini, key, window,
                   frames, dropped, presses, rewrites, n_goto, last_sent, fn>>

\* lines 100-102: KeyboardInterrupt inside the try block
MainInterrupt ==
    /\ pc_main \in {"loop", "get"}
    /\ stop_signal' = TRUE
    /\ pc_main' = "join_yolo"
    /\ UNCHANGED <<pc_yolo, pc_ctl, frame_queue, pose_queue, calibrate_event,
                   pose_zero_offsets, last_head_pose, last_antennas, pose_data, mini, key, window,
                   frames, dropped, presses, rewrites, n_goto, last_sent, fn>>

\* line 106: yolo_thread.join()
MainJoinYolo ==
    /\ pc_main = "join_yolo"
    /\ pc_yolo = "done"
    /\ pc_main' = "join_ctl"
    /\ UNCHANGED <<pc_yolo, pc_ctl, frame_queue, pose_queue, stop_signal, calibrate_event,
                   pose_zero_offsets, last_head_pose, last_antennas, pose_data, mini, key, window,
                   frames, dropped, presses, rewrites, n_goto, last_sent, fn>>

\* lines 107-109: consumer_thread.join(), cv2.destroyAllWindows()
MainJoinCtl ==
    /\ pc_main = "join_ctl"
    /\ pc_ctl = "done"
    /\ window' = "destroyed"
    /\ pc_main' = "done"
    /\ UNCHANGED <<pc_yolo, pc_ctl, frame_queue, pose_queue, stop_signal, calibrate_event,
                   pose_zero_offsets, last_head_pose, last_antennas, pose_data, mini, key,
                   frames, dropped, presses, rewrites, n_goto, last_sent, fn>>

\* The operator presses a key while the loop runs; the window keeps it for
\* the next cv2.waitKey (line 85).
PressKey(k) ==
    /\ pc_main \in {"loop", "get"}
    /\ key = "none"
    /\ k = "c" => presses < MaxPresses
    /\ key' = k
    /\ presses' = IF k = "c" THEN presses + 1 ELSE presses
    /\ UNCHANGED <<pc_main, pc_yolo, pc_ctl, frame_queue, pose_queue, stop_signal,
                   calibrate_event, pose_zero_offsets, last_head_pose, last_antennas, pose_data, mini,
                   window, frames, dropped, rewrites, n_goto, last_sent, fn>>

\* ------------------------------------------------------- specifications
YoloStep ==
    \/ \E ok \in BOOLEAN : YoloOpenCamera(ok)
    \/ YoloLoopCheck
    \/ YoloReadFail
    \/ YoloNoPerson
    \/ \E k \in Persons, e \in Errs : YoloFrame(k, e, frames + 1)
    \/ YoloRelease

ControlStep ==
    \/ ControlLoopCheck
    \/ \E raises \in BOOLEAN : ControlCycle(raises)
    \/ ControlTimeout
    \/ ControlFinal

MainStep ==
    \/ \E ok \in BOOLEAN : MainRobotInit(ok)
    \/ MainLoopCheck
    \/ MainIteration
    \/ MainTimeout
    \/ MainJoinYolo
    \/ MainJoinCtl

Environment ==
    \/ MainInterrupt
    \/ \E k \in Keys : PressKey(k)

Next == YoloStep \/ ControlStep \/ MainStep \/ Environment

Spec == Init /\ [][Next]_vars

\* The same program in front of one unchanging subject, for a longer run.
YoloStepLong ==
    \/ \E ok \in BOOLEAN : YoloOpenCamera(ok)
    \/ YoloLoopCheck
    \/ YoloReadFail
    \/ YoloNoPerson
    \/ \E k \in PersonsLong : YoloFrame(k, "none", 0)
    \/ YoloRelease

NextLong == YoloStepLong \/ ControlStep \/ MainStep \/ Environment

SpecLong == Init /\ [][NextLong]_vars

\* The control stage on its own: control_reachy next to a producer that may
\* hand it any bundle (main.py line 77) and set the stop flag at any time
\* (main.py lines 89 and 102, pose_detector.py lines 45 and 49).
HalfPi == <<0, 0, 1>>
SwaySamples == {40, -200}
ArmSamples == {<<None, None>>, <<Some(ZeroAngle), None>>, <<Some(ZeroAngle), Some(Pi)>>,
               <<Some(HalfPi), Some(HalfPi)>>}
Bundles(id) == {[id |-> id, left_arm |-> a[1], right_arm |-> a[2], hip_sway |-> h] :
                   a \in ArmSamples, h \in {None} \cup {Some(x) : x \in SwaySamples}}

ProducerPut(bundle) ==
    /\ pc_main = "loop"
    /\ frames < MaxPuts
    /\ frames' = frames + 1
    /\ pose_queue' = put_nowait(pose_queue, PoseQueueMax, bundle)
    /\ dropped' = IF Len(pose_queue) >= PoseQueueMax THEN dropped \cup {"pose"} ELSE dropped
    /\ UNCHANGED <<pc_main, pc_yolo, pc_ctl, frame_queue, stop_signal, calibrate_event,
                   pose_zero_offsets, last_head_pose, last_antennas, pose_data, mini, key, window,
                   presses, rewrites, n_goto, last_sent, fn>>

ProducerStop ==
    /\ pc_main = "loop"
    /\ ~stop_signal
    /\ stop_signal' = TRUE
    /\ UNCHANGED <<pc_main, pc_yolo, pc_ctl, frame_queue, pose_queue, calibrate_event,
                   pose_zero_offsets, last_head_pose, last_antennas, pose_data, mini, key, window,
                   frames, dropped, presses, rewrites, n_goto, last_sent, fn>>

NextCtl ==
    \/ \E ok \in BOOLEAN : MainRobotInit(ok)
    \/ ControlStep
    \/ \E b \in Bundles(frames + 1) : ProducerPut(b)
    \/ ProducerStop

SpecCtl == Init /\ [][NextCtl]_vars

\* Thread scheduling: a thread that can take a step eventually takes one.
FairCtl == SpecCtl /\ WF_vars(ControlStep)
FairLong == SpecLong /\ WF_vars(YoloStepLong) /\ WF_vars(ControlStep) /\ WF_vars(MainStep)

\* ---------------------------------------- functions checked on their own
Coords == 0..MaxCoord
Points2 == {<<x, y>> : x \in Coords, y \in Coords}
Points3 == {<<x, y, z>> : x \in Coords, y \in Coords, z \in Coords}

InitAngle ==
    /\ InitPipe
    /\ fn_in \in {<<a, b, c>> : a \in Points2, b \in Points2, c \in Points2}
                \cup {<<a, b, c>> : a \in Points3, b \in Points3, c \in Points3}
    /\ fn_out = <<>>

ApplyCalculateAngle ==
    /\ fn_out = <<>>
    /\ Len(fn_in) = 3
    /\ fn_out' = <<calculate_angle(fn_in[1], fn_in[2], fn_in[3])>>
    /\ UNCHANGED <<pipe, fn_in>>

SpecAngle == InitAngle /\ [][ApplyCalculateAngle]_vars

AngleSamples == {ZeroAngle, Pi, HalfPi, <<1, 1, 2>>}
OptAngles == {None} \cup {Some(a) : a \in AngleSamples}

InitMap ==
    /\ InitPipe
    /\ fn_in \in [pose_data : [id : {0}, left_arm : OptAngles, right_arm : OptAngles,
                               hip_sway : {None} \cup {Some(x) : x \in -MaxSway..MaxSway}],
                  last_head : {create_head_pose(0), create_head_pose(100)},
                  last_ant : {NeutralAntennas, antenna_cmd(HalfPi, ZeroAngle)}]
    /\ fn_out = <<>>

ApplyControlTarget ==
    /\ fn_out = <<>>
    /\ fn_out' = <<ControlTarget(fn_in.pose_data, fn_in.last_head, fn_in.last_ant)>>
    /\ UNCHANGED <<pipe, fn_in>>

SpecMap == InitMap /\ [][ApplyControlTarget]_vars

\* ================================================================ claims
LatMax == HEAD_Y_MM_MAX * LatScale
Lateral(target) == target.head.y
LastOf(q) == q[Len(q)]

\* C1 (SpecLong): a put_nowait onto a full queue, by yolo_loop onto
\* frame_queue at 2 items or by main onto pose_queue at 10 items, completes
\* (the caller moves on) and leaves the queue exactly as it was.
C1_PutOnFullQueueDrops ==
    [][/\ ((\E k \in PersonsLong : YoloFrame(k, "none", 0))
            /\ Len(frame_queue) = FrameQueueMax)
          => (frame_queue' = frame_queue /\ pc_yolo' = "loop")
       /\ (MainIteration /\ Len(pose_queue) = PoseQueueMax)
          => (pose_queue' = pose_queue /\ pc_main' \in {"loop", "join_yolo"})]_vars

\* C1 witness: both queues are full and each has found a put on it full.
C1_Witness ==
    /\ dropped = {"frame", "pose"}
    /\ Len(frame_queue) = FrameQueueMax
    /\ Len(pose_queue) = PoseQueueMax

\* C2 (Spec): a frame processed up to the sway with the trigger set stores
\* its raw sway as the offset, clears the trigger and reports sway 0; a frame
\* processed with the trigger clear leaves the offset alone and reports raw
\* minus offset; and the offset is never written more often than the
\* calibrate key was pressed.
C2_FrameStep(k, e) ==
    YoloFrame(k, e, frames + 1)
    => /\ (Calibrates(k, e, calibrate_event))
          => /\ pose_zero_offsets' = raw_hip_sway(k)
             /\ ~calibrate_event'
             /\ Len(frame_queue) < FrameQueueMax
                => LastOf(frame_queue').pose.hip_sway = Some(0)
       /\ ~calibrate_event
          => /\ pose_zero_offsets' = pose_zero_offsets
             /\ rewrites' = rewrites
             /\ (Len(frame_queue) < FrameQueueMax /\ e = "none" /\ HasSway(k))
                => LastOf(frame_queue').pose.hip_sway
                     = Some(raw_hip_sway(k) - pose_zero_offsets)

C2_CalibrationSingleShot ==
    /\ [][\A k \in Persons, e \in Errs : C2_FrameStep(k, e)]_vars
    /\ [](rewrites <= presses)

\* C2 witness: one press, one rewrite to R = 60, and a later frame with raw
\* sway -60 reported as -120.
C2_Witness ==
    /\ presses = 1
    /\ rewrites = 1
    /\ pose_zero_offsets = 60
    /\ ~calibrate_event
    /\ frame_queue # <<>>
    /\ LastOf(frame_queue).pose.hip_sway = Some(-120)

\* The step of control_reachy that dequeues a bundle.
Dequeues == pose_queue # <<>> /\ pose_queue' = Tail(pose_queue)
ArmsValid(b) == b.left_arm # None /\ b.right_arm # None

\* C3 as claimed (SpecCtl): for every dequeued bundle, with hip_sway none the
\* lateral sent is the lateral of the previous cycle's target (neutral if
\* none), with an arm angle none the antennas sent are the previous cycle's.
C3_HoldsPreviousCycleTarget ==
    [][Dequeues =>
        LET b == Head(pose_queue)
        IN  /\ b.hip_sway = None
               => mini'.head = (IF mini.op = "set" THEN mini.head ELSE create_head_pose(0))
            /\ ~ArmsValid(b)
               => mini'.antennas = (IF mini.op = "set" THEN mini.antennas
                                    ELSE Some(NeutralAntennas))]_vars

\* C3 amended (SpecCtl): for every dequeued bundle, with hip_sway none the
\* lateral sent is the lateral of the last target whose set_target returned
\* (neutral if none), with an arm angle none the antennas sent are that
\* target's; each channel is held on its own: hip_sway none with both arms
\* valid sends the new antennas with the held lateral, and the other way round.
C3_HoldsLastSentTarget ==
    [][Dequeues =>
        LET b == Head(pose_queue)
            held == IF last_sent = None
                    THEN [head |-> create_head_pose(0), antennas |-> NeutralAntennas]
                    ELSE last_sent[1]
        IN  /\ b.hip_sway = None => mini'.head = held.head
            /\ ~ArmsValid(b) => mini'.antennas = Some(held.antennas)
            /\ ArmsValid(b)
               => mini'.antennas = Some(antenna_cmd(b.left_arm[1], b.right_arm[1]))
            /\ b.hip_sway # None
               => mini'.head = create_head_pose(head_y_cmd(b.hip_sway[1]))]_vars

\* C3 witness: the last bundle had no hip_sway and both arms; it was sent
\* with the lateral of an earlier bundle and with its own antennas.
C3_Witness ==
    /\ pose_data # None
    /\ pose_data[1].hip_sway = None
    /\ ArmsValid(pose_data[1])
    /\ mini.op = "set"
    /\ mini.head = create_head_pose(head_y_cmd(40))
    /\ mini.antennas = Some(antenna_cmd(HalfPi, HalfPi))

\* C4 (Spec): the last command handed to the robot, whichever it is, has a
\* lateral head displacement within [-35, +35] mm.
C4_LateralWithinRange ==
    /\ Lateral(mini) >= -LatMax
    /\ Lateral(mini) <= LatMax

\* C4 witness: a sway of 120 pixels, reached by calibrating at -60 and then
\* swaying to +60, was sent as -35 mm.
C4_Witness ==
    /\ mini.op = "set"
    /\ pose_data # None
    /\ pose_data[1].hip_sway = Some(120)
    /\ Lateral(mini) = -LatMax
    /\ pose_zero_offsets = -60

\* C5 (SpecMap): with hip_sway s present the lateral sent is -35*s/80 mm for
\* s in [-80, 80], -35 mm above 80 and +35 mm below -80; so 0 gives 0, +80
\* gives -35, -80 gives +35 and +40 gives -17.5 mm (-280 sixteenths).
C5_Expected(x, y) ==
    /\ (x >= -SWAY_PIXEL_MAX /\ x <= SWAY_PIXEL_MAX)
       => SWAY_PIXEL_MAX * y = -HEAD_Y_MM_MAX * LatScale * x
    /\ x > SWAY_PIXEL_MAX => y = -HEAD_Y_MM_MAX * LatScale
    /\ x < -SWAY_PIXEL_MAX => y = HEAD_Y_MM_MAX * LatScale
    /\ x = 0 => y = 0
    /\ x = 80 => y = -35 * LatScale
    /\ x = -80 => y = 35 * LatScale
    /\ x = 40 => 2 * y = -35 * LatScale

C5_SwayMapping ==
    (fn_out # <<>> /\ fn_in.pose_data.hip_sway # None)
    => C5_Expected(fn_in.pose_data.hip_sway[1], Lateral(fn_out[1]))

\* C5 witness: the mapping was applied to +40 after the head was elsewhere.
C5_Witness ==
    /\ fn_out # <<>>
    /\ fn_in.pose_data.hip_sway = Some(40)
    /\ fn_in.last_head = create_head_pose(100)
    /\ 2 * Lateral(fn_out[1]) = -35 * LatScale

\* C6 (SpecMap): with both arm angles present the antennas sent are
\* [-(pi - left_arm), +(pi - right_arm)]: an angle of 0 gives magnitude pi, an
\* angle of pi gives magnitude 0, equal angles give equal magnitudes with
\* opposite signs, and {left_arm: 0, right_arm: pi, hip_sway: 40} from the
\* neutral state gives lateral -17.5 mm, antennas [-pi, 0].
C6_AntennaMapping ==
    (fn_out # <<>> /\ ArmsValid(fn_in.pose_data))
    => LET l == fn_in.pose_data.left_arm[1]
           r == fn_in.pose_data.right_arm[1]
           ant == fn_out[1].antennas
       IN  /\ ant[1] = Radians(-1, PiMinus(l))
           /\ ant[2] = Radians(1, PiMinus(r))
           /\ l = ZeroAngle => ant[1] = <<-1, Pi>>
           /\ r = ZeroAngle => ant[2] = <<1, Pi>>
           /\ l = Pi => Magnitude(ant[1]) = ZeroAngle
           /\ r = Pi => Magnitude(ant[2]) = ZeroAngle
           /\ l = r => /\ Magnitude(ant[1]) = Magnitude(ant[2])
                       /\ l # Pi => (ant[1][1] = -1 /\ ant[2][1] = 1)
           /\ (l = ZeroAngle /\ r = Pi /\ fn_in.pose_data.hip_sway = Some(40)
               /\ fn_in.last_head = create_head_pose(0)
               /\ fn_in.last_ant = NeutralAntennas)
              => /\ 2 * Lateral(fn_out[1]) = -35 * LatScale
                 /\ ant = <<<<-1, Pi>>, <<1, ZeroAngle>>>>

\* C6 witness: the scenario of the claim was run.
C6_Witness ==
    /\ fn_out # <<>>
    /\ fn_in.pose_data.left_arm = Some(ZeroAngle)
    /\ fn_in.pose_data.right_arm = Some(Pi)
    /\ fn_in.pose_data.hip_sway = Some(40)
    /\ fn_in.last_head = create_head_pose(0)
    /\ fn_in.last_ant = NeutralAntennas
    /\ fn_out[1].antennas = <<<<-1, Pi>>, <<1, ZeroAngle>>>>

\* C10 (SpecAngle): calculate_angle(a, b, c) gives 0.0 whenever a = b or
\* c = b, in two and in three dimensions.
C10_ZeroLengthGivesZero ==
    (fn_out # <<>> /\ (fn_in[1] = fn_in[2] \/ fn_in[3] = fn_in[2]))
    => fn_out[1] = ZeroAngle

\* C10 witness: a = b and c # b in three dimensions gave 0.0.
C10_Witness ==
    /\ fn_out = <<ZeroAngle>>
    /\ Len(fn_in[2]) = 3
    /\ fn_in[1] = fn_in[2]
    /\ fn_in[3] # fn_in[2]

NeutralGoto ==
    [op |-> "goto", bundle |-> None, after_stop |-> FALSE, head |-> create_head_pose(0),
     antennas |-> Some(NeutralAntennas)]
Started == pc_main \notin {"init", "aborted"}

\* C7 (FairLong): once the workers are started and the stop flag is set, the
\* control stage ends; when it has ended it has issued one final neutral
\* goto (the second goto_target after the one at startup), and that goto
\* stays the last command the robot was handed.
C7_FinalNeutralGoto ==
    /\ (stop_signal /\ Started) ~> (pc_ctl = "done")
    /\ [](pc_ctl = "done" => (mini = NeutralGoto /\ n_goto = 2))
    /\ [][mini = NeutralGoto => mini' = mini]_vars

\* C7 witness: the control stage ended with the neutral goto while bundles
\* were still queued and after a cycle whose set_target raised.
C7_Witness ==
    /\ pc_ctl = "done"
    /\ mini = NeutralGoto
    /\ pose_queue # <<>>
    /\ pose_data # None
    /\ last_sent = None

CleanShutdown ==
    /\ stop_signal
    /\ pc_yolo = "done"
    /\ pc_ctl = "done"
    /\ pc_main = "done"
    /\ mini = NeutralGoto
    /\ window = "destroyed"

\* C8 (FairLong): whenever the quit key is pressed, or an interrupt has
\* arrived, while the orchestrator loop was running, a clean shutdown
\* follows: stop flag set, both workers ended and joined, robot at neutral,
\* display closed.
C8_QuitOrInterruptShutsDown ==
    /\ (key = "q" /\ pc_main \in {"loop", "get"}) ~> CleanShutdown
    /\ (stop_signal /\ pc_main = "join_yolo") ~> CleanShutdown

\* C9 (FairLong): once the stop flag is set, both workers end and main's two
\* joins complete.
C9_StopTerminatesWorkers ==
    stop_signal ~> (pc_yolo = "done" /\ pc_ctl = "done" /\ pc_main = "done")

\* C9 witness: everything has ended after a stop with both queues non-empty.
C9_Witness ==
    /\ stop_signal
    /\ pc_yolo = "done"
    /\ pc_ctl = "done"
    /\ pc_main = "done"
    /\ Len(frame_queue) = FrameQueueMax
    /\ Len(pose_queue) = PoseQueueMax

\* The err of a frame lets the try block reach the calibration check of
\* line 132.
ReachesSwayBlock(k, e) ==
    \/ e = "none"
    \/ e = "putL" /\ ~HasLeftArm(k)
    \/ e = "putR" /\ ~HasRightArm(k)

\* C11 as claimed (Spec): the calibrate key sets the trigger, and every frame
\* the vision stage processes with the trigger set, with or without a
\* subject, clears the trigger and stores that frame's raw hip sway.
C11_NextFrameConsumes ==
    [][/\ (MainIteration /\ key = "c") => calibrate_event'
       /\ \A k \in Persons, e \in Errs :
            (YoloFrame(k, e, frames + 1) /\ calibrate_event)
            => (~calibrate_event' /\ pose_zero_offsets' = raw_hip_sway(k))
       /\ (YoloNoPerson /\ calibrate_event) => ~calibrate_event']_vars

\* C11 amended (Spec): the calibrate key sets the trigger; a frame processed
\* with the trigger set clears it and stores the frame's raw hip sway when
\* its four hip and shoulder keypoints are above the threshold and no error
\* is raised before the sway is computed; every other frame, with no subject,
\* with one of the four keypoints at or below the threshold, or with an error
\* raised earlier, leaves the trigger set and the offset as it was.
C11_FirstFrameWithSwayConsumes ==
    [][/\ (MainIteration /\ key = "c") => calibrate_event'
       /\ \A k \in Persons, e \in Errs :
            (YoloFrame(k, e, frames + 1) /\ calibrate_event)
            => IF HasSway(k) /\ ReachesSwayBlock(k, e)
               THEN ~calibrate_event' /\ pose_zero_offsets' = raw_hip_sway(k)
               ELSE calibrate_event' /\ pose_zero_offsets' = pose_zero_offsets
       /\ (YoloNoPerson /\ calibrate_event)
          => (calibrate_event' /\ pose_zero_offsets' = pose_zero_offsets)]_vars

\* C11 witness: after one press the trigger was consumed by frame 3, whose
\* raw sway -60 became the offset, behind a frame 2 that gave no sway.
C11_Witness ==
    /\ presses = 1
    /\ rewrites = 1
    /\ ~calibrate_event
    /\ pose_zero_offsets = -60
    /\ Len(frame_queue) = 2
    /\ frame_queue[1].pose.hip_sway = None
    /\ frame_queue[2].frame = 3
    /\ frame_queue[2].pose.hip_sway = Some(0)

\* C12 (SpecCtl): every step of the control stage that dequeues a bundle
\* hands the robot a set command made in the cycle of that very bundle, also
\* when the bundle's signals are all none or give the target the robot
\* already has; a step that dequeues nothing (a poll timeout, a loop test)
\* hands the robot nothing, the two goto_target calls apart.  So the set
\* calls and the dequeued bundles are in one-to-one correspondence.
C12_OneSetPerDequeue ==
    /\ [][IF Dequeues
          THEN /\ mini'.op = "set"
               /\ mini'.bundle = Some(Head(pose_queue).id)
               /\ mini'.head = ControlTarget(Head(pose_queue), last_head_pose,
                                             last_antennas).head
          ELSE \/ mini' = mini
               \/ mini'.op = "goto" /\ pc_ctl = "final"
               \/ mini'.op = "goto" /\ pc_main = "init"]_vars
    /\ [](mini.op = "set" => (pose_data # None /\ mini.bundle = Some(pose_data[1].id)))

\* C12 witness: the third bundle, with no signals at all, was sent as a set
\* command with the lateral held from an earlier one, and the queue is empty.
C12_Witness ==
    /\ mini.op = "set"
    /\ mini.bundle = Some(3)
    /\ pose_data # None
    /\ pose_data[1].hip_sway = None
    /\ pose_data[1].left_arm = None
    /\ pose_data[1].right_arm = None
    /\ last_sent # None
    /\ mini.head = create_head_pose(head_y_cmd(-200))
    /\ pose_queue = <<>>

\* The err of a frame is raised inside the try block of lines 70-147.
ErrorRaised(k, e) ==
    \/ e = "kpts"
    \/ e = "putL" /\ HasLeftArm(k)
    \/ e = "putR" /\ HasRightArm(k)

Signals(b) == [left_arm |-> b.left_arm, right_arm |-> b.right_arm, hip_sway |-> b.hip_sway]

\* C13 (Spec): a frame in whose keypoint processing an error is raised, at
\* whichever point, leaves the vision worker running, and the bundle it puts
\* on the frame queue has left_arm, right_arm and hip_sway all none.
C13_ErrorFrameIsNoSignals ==
    [][\A k \in Persons, e \in Errs :
         (YoloFrame(k, e, frames + 1) /\ ErrorRaised(k, e))
         => /\ pc_yolo' = "loop"
            /\ Len(frame_queue) < FrameQueueMax
               => Signals(LastOf(frame_queue').pose) = NoSignals]_vars

Held == [head |-> last_head_pose, antennas |-> last_antennas]

\* C14 (FairCtl): a cycle whose set_target raises leaves the control stage
\* in its loop with the held lateral and antennas exactly as before the
\* cycle, so that the held command is always the last target whose
\* set_target returned (neutral before the first); the stage goes on to
\* dequeue the bundles that follow, and once the stop flag is set it ends
\* with the final neutral goto.
C14_RaiseLeavesHeldCommand ==
    /\ [][ControlCycle(TRUE)
          => /\ last_head_pose' = last_head_pose
             /\ last_antennas' = last_antennas
             /\ pc_ctl' = "loop"]_vars
    /\ [](Held = IF last_sent = None
                 THEN [head |-> create_head_pose(0), antennas |-> NeutralAntennas]
                 ELSE last_sent[1])
    /\ Started ~> (stop_signal \/ pose_queue = <<>>)
    /\ (stop_signal /\ Started) ~> (pc_ctl = "done" /\ mini = NeutralGoto)

\* C14 witness: the control stage has ended with the neutral goto; its last
\* cycle raised (the target of its bundle is not the held one) and the held
\* command is still the target of an earlier cycle that returned.
C14_Witness ==
    /\ pc_ctl = "done"
    /\ mini = NeutralGoto
    /\ pose_data # None
    /\ pose_data[1].id = 3
    /\ last_sent # None
    /\ Held = last_sent[1]
    /\ ControlTarget(pose_data[1], last_head_pose, last_antennas) # Held

\* The vision worker has left its loop while the stop flag is clear, which
\* only a failed read does.
DeadSource == pc_yolo \in {"release", "done"} /\ ~stop_signal

Ids(q) == {q[i].id : i \in DOMAIN q}
FrameIds(q) == {q[i].frame : i \in DOMAIN q}

\* A bundle newer than b was produced and is on neither queue.  Bundles are
\* numbered in the order of their production and delivered in that order, so
\* such a bundle was not delivered before b: it was dropped.
DroppedNewer(b) ==
    \E n \in (b.id + 1)..frames : n \notin FrameIds(frame_queue) /\ n \notin Ids(pose_queue)

\* C16 (Spec): whenever the control stage dequeues a bundle, no bundle
\* produced after it has been discarded by a drop-on-full.
C16_DeliveredIsFreshest ==
    [][Dequeues => ~DroppedNewer(Head(pose_queue))]_vars

\* The bundles still on their way, oldest first: those main has forwarded,
\* then those it has yet to take from the frame queue.
InFlight == [i \in 1..(Len(pose_queue) + Len(frame_queue)) |->
                IF i <= Len(pose_queue) THEN pose_queue[i].id
                ELSE frame_queue[i - Len(pose_queue)].frame]

\* C17 (Spec): bundles are numbered 1, 2, ... as the vision stage produces
\* them.  Every bundle the control stage dequeues was produced, unchanged on
\* its way, and has a higher number than the bundle it dequeued before; the
\* bundles still queued are in the order of their numbers, all after the one
\* last dequeued.  So what the control stage processes is a subsequence of
\* what was produced, in order and without repeats.
C17_DeliveryPreservesOrder ==
    /\ [][Dequeues
          => /\ Head(pose_queue).id \in 1..frames
             /\ pose_data # None => Head(pose_queue).id > pose_data[1].id
             /\ pose_data' = Some(Head(pose_queue))]_vars
    /\ [](\A i \in DOMAIN InFlight :
            /\ InFlight[i] \in 1..frames
            /\ pose_data # None => InFlight[i] > pose_data[1].id
            /\ \A j \in DOMAIN InFlight : i < j => InFlight[i] < InFlight[j])
    /\ [](\A i \in DOMAIN frame_queue : frame_queue[i].pose.id = frame_queue[i].frame)
    /\ [][MainIteration
          => (Len(pose_queue) < PoseQueueMax
              => LastOf(pose_queue') = Head(frame_queue).pose)]_vars

\* C17 witness: of three bundles produced the third was dropped on the full
\* frame queue, and the control stage has processed the first two, the
\* second last.
C17_Witness ==
    /\ frames = 3
    /\ dropped = {"frame"}
    /\ pose_data # None
    /\ pose_data[1].id = 2
    /\ mini.op = "set"
    /\ mini.bundle = Some(2)
    /\ frame_queue = <<>>
    /\ pose_queue = <<>>

\* C18 (Spec): a step that changes the calibration offset is a step of the
\* vision stage that processes a frame with the trigger set and the four hip
\* and shoulder keypoints above the threshold, and it stores that frame's raw
\* sway; no step of main or of the control stage changes it.  The arm angles
\* of every bundle put on the frame queue are given by the frame's keypoints
\* alone, whatever the offset and the trigger are.
C18_FrameStep(k, e) ==
    (YoloFrame(k, e, frames + 1) /\ Len(frame_queue) < FrameQueueMax)
    => LET b == LastOf(frame_queue').pose
       IN  /\ (b.left_arm # None) <=> (HasLeftArm(k) /\ e # "kpts")
           /\ (b.right_arm # None)
              <=> (HasRightArm(k) /\ e # "kpts" /\ ~(e = "putL" /\ HasLeftArm(k)))
           /\ b.left_arm # None
              => b.left_arm = Some(calculate_angle(Pos(k[LEFT_HIP]), Pos(k[LEFT_SHOULDER]),
                                                   Pos(k[LEFT_ELBOW])))
           /\ b.right_arm # None
              => b.right_arm = Some(calculate_angle(Pos(k[RIGHT_HIP]), Pos(k[RIGHT_SHOULDER]),
                                                    Pos(k[RIGHT_ELBOW])))

C18_OffsetSingleWriter ==
    /\ [][pose_zero_offsets' # pose_zero_offsets
          => \E k \in Persons, e \in Errs :
                /\ YoloFrame(k, e, frames + 1)
                /\ calibrate_event
                /\ HasSway(k)
                /\ pose_zero_offsets' = raw_hip_sway(k)]_vars
    /\ [][(MainStep \/ ControlStep \/ Environment)
          => pose_zero_offsets' = pose_zero_offsets]_vars
    /\ [][\A k \in Persons, e \in Errs : C18_FrameStep(k, e)]_vars

\* C18 witness: the offset was rewritten once, to 60; a later frame's bundle
\* reached the control stage with sway -60 - 60 and both arm angles, the left
\* one 0.0 for the elbow on the shoulder.
C18_Witness ==
    /\ rewrites = 1
    /\ pose_zero_offsets = 60
    /\ pose_data # None
    /\ pose_data[1].hip_sway = Some(-120)
    /\ pose_data[1].left_arm = Some(ZeroAngle)
    /\ pose_data[1].right_arm # None

\* The step in which the vision worker goes from its read back to its loop
\* test without having found a subject (frames with a subject are counted).
NoSubjectFrame == pc_yolo = "read" /\ pc_yolo' = "loop" /\ frames' = frames

\* C19 (Spec): a frame with no subject puts nothing on the frame queue and
\* leaves the offset and the trigger, pending or not, as they were; and
\* while the frame queue is empty main, in its loop, forwards nothing, shows
\* nothing and reads no key: a pressed key stays pending and neither flag is set by it.
C19_NoSubjectNoItem ==
    /\ [][NoSubjectFrame
          => /\ frame_queue' = frame_queue
             /\ pose_zero_offsets' = pose_zero_offsets
             /\ calibrate_event' = calibrate_event
             /\ UNCHANGED <<pose_queue, window, key, stop_signal, mini>>]_vars
    /\ [][(frame_queue = <<>> /\ pc_main \in {"loop", "get"})
          => /\ window' = window
             /\ Len(pose_queue') <= Len(pose_queue)
             /\ key # "none" => key' = key
             /\ calibrate_event' => calibrate_event
             /\ (stop_signal' /\ ~stop_signal) => (MainInterrupt \/ pc_yolo = "open")]_vars

\* C19 witness: the state a frame with no subject leaves behind it: the
\* vision worker is back at its loop test, the trigger is still pending, the
\* offset is the initial one, the frame queue is empty and main is polling it
\* with a pressed quit key unread.
C19_Witness ==
    /\ pc_yolo = "loop"
    /\ calibrate_event
    /\ rewrites = 0
    /\ pose_zero_offsets = 0
    /\ frame_queue = <<>>
    /\ pc_main = "get"
    /\ key = "q"
    /\ ~stop_signal
    /\ window = "shown"

\* C20 (SpecCtl): the stop flag is never cleared; a bundle dequeued with the
\* flag set is one the control stage was already polling for, its set
\* command is the only one made with the flag set, and the worker then goes
\* from its loop test to the final goto without polling again; from there
\* on nothing is dequeued, whatever the signal queue holds, and the last
\* command is the neutral goto.
C20_AtMostOneSetAfterStop ==
    /\ [][stop_signal => stop_signal']_vars
    /\ [][(Dequeues /\ stop_signal)
          => /\ pc_ctl = "get"
             /\ ~(mini.op = "set" /\ mini.after_stop)
             /\ mini'.op = "set"
             /\ mini'.after_stop
             /\ pc_ctl' = "loop"]_vars
    /\ [][(stop_signal /\ pc_ctl = "loop") => (pc_ctl' \in {"loop", "final"})]_vars
    /\ [][(pc_ctl \in {"final", "done"})
          => /\ ~Dequeues
             /\ pose_data' = pose_data
             /\ mini' \in {mini, NeutralGoto}]_vars
    /\ [](pc_ctl = "done" => mini = NeutralGoto)

\* C20 witness: one bundle out of three was sent with the stop flag set, and
\* the control stage has left its loop for the final goto with the other two
\* still queued.
C20_Witness ==
    /\ stop_signal
    /\ pc_ctl = "final"
    /\ mini.op = "set"
    /\ mini.after_stop
    /\ mini.bundle = Some(1)
    /\ Len(pose_queue) = 2
====
